---- MODULE Spec2Model ----
(***************************************************************************)
(* A model of gbdxtools/images/meta.py: deferred, geo-referenced images.   *)
(* One session holds one image `img`; every operation of the module is an  *)
(* action on it and leaves its outcome in `ret`.                           *)
(*                                                                         *)
(* Geo coordinates and pixel coordinates are integers.  A point is <<x,y>>.*)
(* An optional value is a sequence of length 0 (absent / None) or 1.       *)
(***************************************************************************)
EXTENDS Integers, Sequences, FiniteSets, TLC

VARIABLES img, ret, chain, ipe, sched

vars == <<img, ret, chain, ipe, sched>>

----------------------------------------------------------------------------
(* Bounds of the model *)

\* extent of the source image in pixels (= geo units at unit pixel size)
SrcCols == 3
SrcRows == 2
\* largest tile edge offered as tileXSize / tileYSize
MaxTile == 2
\* the ground sample distance offered as warp's gsd keyword
KwGsd == 2
\* largest window edge offered to randwindow
MaxWin == 2
\* band count of the source product
NumBands == 2
\* size of the worker pool read computes on (GBDX_THREADS)
num_workers == 2

None == <<>>
Some(v) == <<v>>

Min2(a, b) == IF a < b THEN a ELSE b
Max2(a, b) == IF a > b THEN a ELSE b
SetMin(S) == CHOOSE x \in S : \A y \in S : x <= y
SetMax(S) == CHOOSE x \in S : \A y \in S : x >= y

----------------------------------------------------------------------------
(* shapely: geometries, GeoJSON mappings, WKT *)

\* shapely.geometry.box(minx, miny, maxx, maxy): a counter-clockwise ring
box(minx, miny, maxx, maxy) ==
    [ring |-> << <<maxx, miny>>, <<maxx, maxy>>, <<minx, maxy>>,
                 <<minx, miny>>, <<maxx, miny>> >>]

\* shapely.geometry.mapping(g): the GeoJSON form of a geometry
mapping(g) == [type |-> "Polygon", coordinates |-> <<g.ring>>]

\* shapely.geometry.shape(ob): the geometry of a GeoJSON mapping
shape(ob) == [ring |-> ob.coordinates[1]]

\* shapely.wkt.loads(text): the geometry a WKT polygon text denotes
wkt_loads(w) == [ring |-> w.text]

\* the WKT text of a geometry (what a caller hands to aoi(wkt=...))
wkt_dumps(g) == [tag |-> "POLYGON", text |-> g.ring]

\* geometry.bounds: (minx, miny, maxx, maxy)
bounds(g) ==
    LET xs == {g.ring[i][1] : i \in DOMAIN g.ring}
        ys == {g.ring[i][2] : i \in DOMAIN g.ring}
    IN  <<SetMin(xs), SetMin(ys), SetMax(xs), SetMax(ys)>>

\* the coordinates of a geometry
coords(g) == {g.ring[i] : i \in DOMAIN g.ring}

\* shapely.ops.transform(fn, g): fn applied to every coordinate
ops_transform(fn, g) == [ring |-> [i \in DOMAIN g.ring |-> fn[g.ring[i]]]]

\* a.contains(b) for a box a (given by its bounds) and a polygon b
contains(a, b) ==
    \A i \in DOMAIN b.ring :
        /\ a[1] <= b.ring[i][1] /\ b.ring[i][1] <= a[3]
        /\ a[2] <= b.ring[i][2] /\ b.ring[i][2] <= a[4]

\* bounds a inside bounds b
BoundsWithin(a, b) ==
    /\ b[1] <= a[1] /\ a[3] <= b[3]
    /\ b[2] <= a[2] /\ a[4] <= b[4]

----------------------------------------------------------------------------
(* The transform object an image carries (gbdxtools.ipe.util): north-up,  *)
(* unit pixel size, upper-left corner of pixel (0,0) at geo (x0, y0).      *)

\* __geo_transform__.rev: geo -> pixel
rev(t, p) == <<p[1] - t.x0, t.y0 - p[2]>>

\* __geo_transform__.fwd: pixel -> geo
fwd(t, p) == <<t.x0 + p[1], t.y0 - p[2]>>

\* __geo_transform__ + (dx, dy): the transform composed with a pixel translation
TransformAdd(t, shift) == [t EXCEPT !.x0 = @ + shift[1], !.y0 = @ - shift[2]]

----------------------------------------------------------------------------
(* Python values.  Every value a method can return is a record            *)
(*   [cls, shape, origin, dict]                                            *)
(* cls    : the concrete class of the object;                              *)
(* shape  : the axis extents of an array ( <<>> for a non-array value);    *)
(* origin : <<row, col>> of the array's pixel (0,0) in the array it was    *)
(*          computed from (<<0, 0>> unless it is a slice);                 *)
(* dict   : the instance __dict__: __geo_interface__ (gi),                 *)
(*          __geo_transform__ (gt) and __daskmeta__ (dm), each optional.   *)

\* the concrete image class of the source product (self.__class__ in warp)
SrcClass == "SrcImage"
ImageClasses == {SrcClass, "GeoDaskWrapper", "DaskImage"}
\* classes with GeoImage in their MRO
GeoClasses == {SrcClass, "GeoDaskWrapper"}
\* isinstance(v, da.Array)
IsDaskArray(v) == v.cls \in ImageClasses \cup {"Array"}

EmptyDict == [gi |-> None, gt |-> None, dm |-> None]

\* a value that is no deferred array (ndarray, scalar, geometry, generator)
Plain(kind, shp) == [cls |-> kind, shape |-> shp, origin |-> <<0, 0>>, dict |-> EmptyDict]

\* the result of an operation: a returned value, or the exception raised
Ok(v) == [status |-> "ok", val |-> v]
Raise(exc) == [status |-> exc, val |-> Plain("NoneType", <<>>)]

----------------------------------------------------------------------------
(* Python slicing of one axis of extent n with slice(start, stop)          *)

\* slice.indices: a negative index counts from the end, then clamp to [0, n]
PyIndex(i, n) == IF i < 0 THEN Max2(i + n, 0) ELSE Min2(i, n)
SliceStart(start, stop, n) == PyIndex(start, n)
SliceLen(start, stop, n) == Max2(PyIndex(stop, n) - PyIndex(start, n), 0)

\* da.Array.__getitem__((slice(None), slice(r0, r1), slice(c0, c1))) on a
\* 3-axis array: a bare deferred array
ArraySlice(a, r0, r1, c0, c1) ==
    [cls |-> "Array",
     shape |-> <<a.shape[1], SliceLen(r0, r1, a.shape[2]), SliceLen(c0, c1, a.shape[3])>>,
     origin |-> <<SliceStart(r0, r1, a.shape[2]), SliceStart(c0, c1, a.shape[3])>>,
     dict |-> EmptyDict]

\* tuple[2:0:-1] of a shape tuple (Python indices 2 and 1, where they exist)
ShapeRev20(shp) ==
    IF Len(shp) >= 3 THEN <<shp[3], shp[2]>>
    ELSE IF Len(shp) = 2 THEN <<shp[2]>>
    ELSE <<>>

----------------------------------------------------------------------------
(* DaskMeta and DaskMetaWrapper *)

\* DaskMetaWrapper(dask): the record's keys as the DaskMeta properties
DaskMetaWrapper(da) ==
    [isDaskMeta |-> TRUE, dask |-> da.dask, name |-> da.name,
     chunks |-> da.chunks, dtype |-> da.dtype, shape |-> da.shape]

\* a variant of infect that accepts a target of any number of axes
infectAnyShape(dm, target) ==
    IF ~IsDaskArray(target) THEN Raise("AssertionError")
    ELSE Ok([target EXCEPT !.dict.dm = Some([fget |-> dm])])

\* DaskMeta.infect(target): the array plugin run by da.Array.__new__
infect(dm, target) ==
    IF ~IsDaskArray(target) THEN Raise("AssertionError")
    ELSE IF Len(target.shape) \notin {2, 3} THEN Raise("AssertionError")
    ELSE Ok([target EXCEPT !.dict.dm = Some([fget |-> dm])])

\* DaskImage.create(cls, dm)
create(cls, dm) ==
    IF ~dm.isDaskMeta THEN Raise("AssertionError")
    ELSE infect(dm, [cls |-> cls, shape |-> dm.shape, origin |-> <<0, 0>>,
                     dict |-> EmptyDict])

----------------------------------------------------------------------------
(* Attribute access on a DaskImage *)

\* names found as functions in the __dict__ of a class of the MRO
MethodNames == {"read", "randwindow", "iterwindows", "aoi", "geotiff", "warp",
                "warp_geometry", "_parse_geoms", "_reproject",
                "astype", "sum", "compute", "reshape"}

\* names bound to a property object in a class of the MRO; a property is a
\* data descriptor, so it is found before the instance __dict__
ClassProperties == {"__daskmeta__", "__set_daskmeta__", "affine", "bounds", "proj"}

\* a DaskMeta object as a returned value: it rides in the dm slot
MetaValue(dm) == [Plain("DaskMeta", <<>>) EXCEPT !.dict.dm = Some(dm)]

\* the getter of the property DaskImage.__daskmeta__: its body is `pass`
DaskMetaGetter(self) == Plain("NoneType", <<>>)

\* object.__getattribute__(self, "__daskmeta__"): the class property is a
\* data descriptor and is found before the entry infect put in the instance
\* __dict__ (which holds a property object, not the metadata)
ReadDaskMetaAttr(self) ==
    IF "__daskmeta__" \in ClassProperties /\ self.cls \in ImageClasses
    THEN DaskMetaGetter(self)
    ELSE IF self.dict.dm # None
    THEN [Plain("property", <<>>) EXCEPT !.dict.dm = self.dict.dm]
    ELSE Plain("AttributeError", <<>>)

\* a variant of the wrapper body that hands every result back as it is
RewrapKeepsResult(self, result) == result

\* the body of `wrapped` in DaskImage.__getattribute__: re-promote a 2- or
\* 3-axis deferred array to the caller's class and copy the caller's __dict__
\* onto it; anything else passes through
Rewrap(self, result) ==
    IF IsDaskArray(result) /\ Len(result.shape) \in {2, 3}
    THEN [cls |-> self.cls, shape |-> result.shape, origin |-> result.origin,
          dict |-> self.dict]
    ELSE result

\* DaskImage.__getattribute__(name)(*args): the outcome `raw` of the looked-up
\* function, as the caller receives it
ViaGetAttribute(self, name, raw) ==
    IF name \in MethodNames /\ raw.status = "ok"
    THEN Ok(Rewrap(self, raw.val))
    ELSE raw

----------------------------------------------------------------------------
(* GeoImage *)

DefaultProj == "EPSG:4326"
UtmProj == "EPSG:32612"

\* pyproj.transform between two projections, on one coordinate: the identity
\* between equal projections, a one-unit easting shift otherwise
pyproj_transform(from_proj, to_proj, p) ==
    IF from_proj = to_proj THEN p
    ELSE IF from_proj = DefaultProj THEN <<p[1] + 1, p[2]>>
    ELSE <<p[1] - 1, p[2]>>

\* GeoImage.proj
proj(self) == self.dict.gt[1].proj

\* GeoImage.bounds: shape(self).bounds, through self.__geo_interface__
ImageBounds(self) == bounds(shape(self.dict.gi[1]))

\* GeoImage._reproject(geometry, from_proj, to_proj), each projection optional
reproject(self, geometry, from_proj, to_proj) ==
    LET f == IF from_proj = None THEN DefaultProj ELSE from_proj[1]
        t == IF to_proj # None THEN to_proj[1]
             ELSE IF proj(self) # None THEN proj(self)[1] ELSE DefaultProj
        tfm == [p \in coords(geometry) |-> pyproj_transform(f, t, p)]
    IN  ops_transform(tfm, geometry)

\* a variant of the selection that looks at wkt before bbox
ParseWrongOrder(kwargs) ==
    IF kwargs.wkt # None THEN Some(wkt_loads(kwargs.wkt[1]))
    ELSE IF kwargs.bbox # None
    THEN Some(box(kwargs.bbox[1][1], kwargs.bbox[1][2], kwargs.bbox[1][3], kwargs.bbox[1][4]))
    ELSE IF kwargs.geojson # None THEN Some(shape(kwargs.geojson[1]))
    ELSE None

\* the geometry _parse_geoms takes from the keyword arguments, before any
\* reprojection: bbox, else wkt, else geojson, else None
SelectGeom(kwargs) ==
    IF kwargs.bbox # None
    THEN Some(box(kwargs.bbox[1][1], kwargs.bbox[1][2], kwargs.bbox[1][3], kwargs.bbox[1][4]))
    ELSE IF kwargs.wkt # None THEN Some(wkt_loads(kwargs.wkt[1]))
    ELSE IF kwargs.geojson # None THEN Some(shape(kwargs.geojson[1]))
    ELSE None

\* GeoImage._parse_geoms(**kwargs): an outcome whose value is the optional
\* geometry; an image with no transform has no proj to read
parse_geoms(self, kwargs) ==
    LET g == SelectGeom(kwargs)
    IN  IF g = None THEN [status |-> "ok", geom |-> None]
        ELSE IF self.dict.gt = None THEN [status |-> "AttributeError", geom |-> None]
        ELSE IF proj(self) = None THEN [status |-> "ok", geom |-> g]
        ELSE [status |-> "ok",
              geom |-> Some(reproject(self, g[1],
                                      IF kwargs.from_proj = None THEN Some(DefaultProj)
                                      ELSE kwargs.from_proj,
                                      None))]

\* box(0, 0, *self.shape[2:0:-1]) as bounds
ImgPixelBox(self) == <<0, 0, ShapeRev20(self.shape)[1], ShapeRev20(self.shape)[2]>>

\* GeoImage.__contains__(g)
Contains(self, g) ==
    LET r == [p \in coords(g) |-> rev(self.dict.gt[1], p)]
    IN  contains(ImgPixelBox(self), ops_transform(r, g))

\* the pixel bounds of g: ops.transform(self.__geo_transform__.rev, g).bounds
PixelBounds(self, g) ==
    LET r == [p \in coords(g) |-> rev(self.dict.gt[1], p)]
    IN  bounds(ops_transform(r, g))

\* GeoImage.__getitem__(geometry)
GeoGetItem(self, geometry) ==
    LET g == shape(mapping(geometry))
    IN  IF self.dict.gt = None THEN Raise("AttributeError")
        ELSE IF Len(ShapeRev20(self.shape)) # 2 THEN Raise("TypeError")
        ELSE IF ~Contains(self, g) THEN Raise("AssertionError")
        ELSE LET b == PixelBounds(self, g)
                 result == ArraySlice(self, b[2], b[4], b[1], b[3])
             IN  Ok([cls |-> self.cls, shape |-> result.shape, origin |-> result.origin,
                     dict |-> [gi |-> Some(mapping(g)),
                               gt |-> Some(TransformAdd(self.dict.gt[1], <<b[1], b[2]>>)),
                               dm |-> None]])

\* GeoImage.aoi(**kwargs), as looked up on the class (before re-wrapping)
aoi(self, kwargs) ==
    LET g == parse_geoms(self, kwargs)
    IN  IF g.status # "ok" THEN Raise(g.status)
        ELSE IF g.geom = None THEN Ok(self)
        ELSE GeoGetItem(self, g.geom[1])

----------------------------------------------------------------------------
(* GeoImage.warp *)

\* int(num / den) for den > 0: Python's int() truncates toward zero
PyInt(num, den) == IF num >= 0 THEN num \div den ELSE -((-num) \div den)

\* the least integer >= num / den, for num >= 0 and den > 0
CeilDiv(num, den) == (num + den - 1) \div den

\* x_chunks, y_chunks: int(pixel extent / tile size) + 1, where the pixel
\* extent is the geo extent divided by gsd
TileCount(extent, gsd, size) == PyInt(extent, gsd * size) + 1

\* the graph key of tile (y, x)
TileKey(name, md, y, x) == <<name, 0, y - md.minTileY, x - md.minTileX>>

\* the tile (y, x) whose task the graph holds under key k
TileOfKey(md, k) == <<k[3] + md.minTileY, k[4] + md.minTileX>>

\* px_to_geom(xmin, ymin) for tile (y, x).  Pixel coordinates under gtf are
\* kept multiplied by gsd (llS = gsd * ll, urS = gsd * ur), so they stay
\* integers; gtf * (px, py) = (full[1] + gsd * px, full[4] - gsd * py).
px_to_geom(md, full, gsd, llS, urS, y, x) ==
    LET xminS == llS[1] + x * md.tileXSize * gsd
        yminS == urS[2] + y * md.tileYSize * gsd
        xmax == PyInt(xminS + md.tileXSize * gsd, gsd)
        ymax == PyInt(yminS + md.tileYSize * gsd, gsd)
    IN  box(full[1] + xminS, full[4] - gsd * ymax, full[1] + gsd * xmax, full[4] - yminS)

\* the record `daskmeta` that warp builds.  md is self.ipe.metadata["image"]
\* (with the rpcs gsd), full the bounds of im_full, kw the keyword arguments.
WarpDaskMeta(self, md, full, kw) ==
    LET gsd == IF kw.gsd # None THEN kw.gsd[1] ELSE md.rpcsGsd
        b == ImageBounds(self)
        llS == <<b[1] - full[1], full[4] - b[2]>>
        urS == <<b[3] - full[1], full[4] - b[4]>>
        x_chunks == TileCount(urS[1] - llS[1], gsd, md.tileXSize)
        y_chunks == TileCount(llS[2] - urS[2], gsd, md.tileYSize)
        name == "warp-id"
        tiles == (0 .. y_chunks - 1) \X (0 .. x_chunks - 1)
        task(t) == [fn |-> "warp_geometry",
                    geometry |-> px_to_geom(md, full, gsd, llS, urS, t[1], t[2]),
                    dem |-> kw.dem, rpcs |-> kw.rpcs, proj |-> kw.proj, gsd |-> gsd]
    IN  [dask |-> [k \in {TileKey(name, md, t[1], t[2]) : t \in tiles} |->
                       task(TileOfKey(md, k))],
         chunks |-> <<md.numBands, md.tileYSize, md.tileXSize>>,
         dtype |-> md.dataType,
         name |-> name,
         shape |-> <<md.numBands, y_chunks * md.tileYSize, x_chunks * md.tileXSize>>]

\* GeoDaskWrapper.__new__(cls, daskmeta, img)
NewGeoDaskWrapper(daskmeta, image) ==
    LET r == create("GeoDaskWrapper", DaskMetaWrapper(daskmeta))
    IN  IF r.status # "ok" THEN r
        ELSE Ok([r.val EXCEPT !.dict.gi = image.dict.gi, !.dict.gt = image.dict.gt])

\* GeoImage.warp(dem, rpcs, proj, **kwargs), as looked up on the class: the
\* outcome, with the daskmeta record it built
warp(self, md, full, kw) ==
    LET daskmeta == WarpDaskMeta(self, md, full, kw)
        r == NewGeoDaskWrapper(daskmeta, self)
    IN  [status |-> r.status, val |-> r.val, daskmeta |-> daskmeta]

----------------------------------------------------------------------------
(* DaskImage.randwindow *)

\* random.randrange(a, b): the values it can return (none: ValueError)
RandRange(a, b) == a .. (b - 1)

\* the slice randwindow returns once row and col are drawn
randwindow(self, window_shape, row, col) ==
    ArraySlice(self, row - window_shape[1], row, col - window_shape[1], col)

----------------------------------------------------------------------------
(* Inherited dask.array.Array methods, by the kind of value they return    *)

ArrayMethods == {<<"astype", "same">>, <<"sum", "axis0">>, <<"sum", "all">>,
                 <<"reshape", "newaxis">>, <<"compute", "ndarray">>}

ArrayMethod(self, m) ==
    CASE m[2] = "same" ->
           [cls |-> "Array", shape |-> self.shape, origin |-> <<0, 0>>, dict |-> EmptyDict]
      [] m[2] = "axis0" ->
           [cls |-> "Array", shape |-> Tail(self.shape), origin |-> <<0, 0>>,
            dict |-> EmptyDict]
      [] m[2] = "all" ->
           [cls |-> "Array", shape |-> <<>>, origin |-> <<0, 0>>, dict |-> EmptyDict]
      [] m[2] = "newaxis" ->
           [cls |-> "Array", shape |-> <<1>> \o self.shape, origin |-> <<0, 0>>,
            dict |-> EmptyDict]
      [] OTHER -> Plain("ndarray", self.shape)

----------------------------------------------------------------------------------------------------------------------------------------------------
(* The session *)

\* geo coordinates offered to queries: the source footprint and one unit around
GeoXs == 0 .. (SrcCols + 1)
GeoYs == 0 .. (SrcRows + 1)
\* bounds of the full source product (im_full.bounds)
FullBounds == <<0, 1, SrcCols, SrcRows + 1>>

Boxes == {b \in GeoXs \X GeoYs \X GeoXs \X GeoYs : b[1] < b[3] /\ b[2] < b[4]}

\* the geometries offered to aoi's keyword arguments, one per keyword
Opt(S) == {None} \cup {Some(x) : x \in S}
AoiKwargs ==
    [bbox : Opt({<<0, 1, 2, 3>>}),
     wkt : Opt({wkt_dumps(box(1, 2, 2, 3))}),
     geojson : Opt({mapping(box(1, 1, 3, 2))}),
     from_proj : Opt({UtmProj})]

\* metadata records offered to create: DaskMeta instances and look-alikes
MetaShapes == {<<2>>, <<2, 3>>, <<1, 2, 3>>, <<1, 1, 2, 3>>}
Metas ==
    [isDaskMeta : BOOLEAN, dask : {"graph"}, name : {"m1"},
     chunks : {"auto"}, dtype : {"uint16"}, shape : MetaShapes]

\* the records self.ipe.metadata["image"] (with the rpcs gsd) can be
ImageMetadata ==
    [tileXSize : 1 .. MaxTile, tileYSize : 1 .. MaxTile,
     minTileX : {0, 1}, minTileY : {0, 1},
     numBands : {NumBands}, dataType : {"uint16"}, rpcsGsd : {1}]
WarpKwargs == [gsd : Opt({KwGsd}), dem : {0}, rpcs : {None}, proj : {None}]

WindowShapes == (1 .. MaxWin) \X (1 .. MaxWin)

\* the source image: its footprint covers exactly its pixels
SourceImage(p) ==
    [cls |-> SrcClass, shape |-> <<NumBands, SrcRows, SrcCols>>, origin |-> <<0, 0>>,
     dict |-> [gi |-> Some(mapping(box(FullBounds[1], FullBounds[2],
                                       FullBounds[3], FullBounds[4]))),
               gt |-> Some([x0 |-> FullBounds[1], y0 |-> FullBounds[4], proj |-> p]),
               dm |-> None]]

NoVal == Plain("NoneType", <<>>)

\* the returned image, held as the session's image
Held(v) == [v EXCEPT !.origin = <<0, 0>>]

\* chain: what the composition rule of geometry subsetting predicts for img
\* (gi: the GeoJSON form of the last geometry indexed; gt: the transform the
\* run of subsets started from, translated by the pixel offset of every
\* window taken since), and meta: the metadata create attached to the
\* instance img derives from
NewChain(image, meta) == [gi |-> image.dict.gi, gt |-> image.dict.gt, meta |-> meta]

\* the chain after a window with pixel bounds b was cut for geometry g
Subset(c, g, b) ==
    [c EXCEPT !.gi = Some(mapping(g)),
              !.gt = Some(TransformAdd(c.gt[1], <<b[1], b[2]>>))]

\* ret: the operation last called, its outcome, for aoi the keyword arguments
\* it was called with and for warp the daskmeta record it built
Returned(op, r) ==
    [op |-> op, status |-> r.status, val |-> r.val, args |-> None, daskmeta |-> None]

\* no read is in progress
Idle == [state |-> "idle", graph |-> <<>>, want |-> {}, running |-> {}, done |-> <<>>,
         out |-> <<>>]

\* the metadata of a product tiled from tile (0, 0) in single-pixel tiles
PlainMetadata ==
    [tileXSize |-> 1, tileYSize |-> 1, minTileX |-> 0, minTileY |-> 0,
     numBands |-> NumBands, dataType |-> "uint16", rpcsGsd |-> 1]

\* the session starts with the image `first` of a product with metadata md
InitWith(first, md) ==
    /\ img = first
    /\ chain = NewChain(first, None)
    /\ ipe = md
    /\ ret = Returned("init", Ok(NoVal))
    /\ sched = Idle

Init == \E p \in Opt({DefaultProj}) : InitWith(SourceImage(p), PlainMetadata)

\* DaskImage.create(m), called on the class
Create(m) ==
    LET r == create("DaskImage", m)
    IN  /\ ret' = Returned("create", r)
        /\ img' = IF r.status = "ok" THEN Held(r.val) ELSE img
        /\ chain' = IF r.status = "ok" THEN NewChain(r.val, Some(m)) ELSE chain
        /\ UNCHANGED <<ipe, sched>>

\* img[g] for a geometry g: GeoImage.__getitem__, found by the indexing
\* syntax on the type (DaskImage.__getattribute__ is not consulted)
GetItem(b) ==
    LET g == box(b[1], b[2], b[3], b[4])
        r == GeoGetItem(img, g)
    IN  /\ img.cls \in GeoClasses
        /\ ret' = Returned("getitem", r)
        /\ img' = IF r.status = "ok" THEN Held(r.val) ELSE img
        /\ chain' = IF r.status = "ok"
                    THEN [Subset(chain, g, PixelBounds(img, g)) EXCEPT !.meta = None]
                    ELSE chain
        /\ UNCHANGED <<ipe, sched>>

\* img.aoi(**kwargs)
Aoi(kw) ==
    LET g == parse_geoms(img, kw)
        r == ViaGetAttribute(img, "aoi", aoi(img, kw))
    IN  /\ img.cls \in GeoClasses
        /\ ret' = [Returned("aoi", r) EXCEPT !.args = Some(kw)]
        /\ img' = IF r.status = "ok" THEN Held(r.val) ELSE img
        /\ chain' = IF r.status = "ok" /\ g.geom # None
                    THEN Subset(chain, g.geom[1], PixelBounds(img, g.geom[1]))
                    ELSE chain
        /\ UNCHANGED <<ipe, sched>>

\* img.<method>(...) for an inherited array method
CallMethod(m) ==
    LET r == ViaGetAttribute(img, m[1], Ok(ArrayMethod(img, m)))
    IN  /\ ret' = Returned("method", r)
        /\ img' = IF r.val.cls \in ImageClasses THEN Held(r.val) ELSE img
        /\ chain' = IF r.val.cls \in ImageClasses THEN NewChain(r.val, chain.meta) ELSE chain
        /\ UNCHANGED <<ipe, sched>>

\* img.randwindow(window_shape)
RandWindow(ws) ==
    /\ Len(img.shape) = 3
    /\ \/ /\ RandRange(ws[1], img.shape[2]) = {} \/ RandRange(ws[2], img.shape[3]) = {}
          /\ ret' = Returned("randwindow", Raise("ValueError"))
          /\ UNCHANGED <<img, chain>>
       \/ \E row \in RandRange(ws[1], img.shape[2]), col \in RandRange(ws[2], img.shape[3]) :
            LET r == ViaGetAttribute(img, "randwindow", Ok(randwindow(img, ws, row, col)))
            IN  /\ ret' = Returned("randwindow", r)
                /\ img' = Held(r.val)
                /\ chain' = NewChain(r.val, chain.meta)
    /\ UNCHANGED <<ipe, sched>>

\* img.warp(**kwargs); self.ipe.metadata is the product's metadata
Warp(kw) ==
    LET w == warp(img, ipe, FullBounds, kw)
        r == ViaGetAttribute(img, "warp", [status |-> w.status, val |-> w.val])
    IN  /\ sched.state # "running"
        /\ img.cls = SrcClass
        /\ img.dict.gi # None /\ img.dict.gt # None
        /\ ret' = [Returned("warp", r) EXCEPT !.daskmeta = Some(w.daskmeta)]
        /\ img' = IF r.status = "ok" THEN Held(r.val) ELSE img
        /\ chain' = IF r.status = "ok" THEN NewChain(r.val, chain.meta) ELSE chain
        /\ UNCHANGED <<ipe, sched>>

\* img.__daskmeta__
ReadDaskMeta ==
    /\ img.cls \in ImageClasses
    /\ ret' = Returned("daskmeta", Ok(ReadDaskMetaAttr(img)))
    /\ UNCHANGED <<img, chain, ipe, sched>>

\* a session of geometry subsetting
Next ==
    \/ \E b \in Boxes : GetItem(b)
    \/ \E kw \in AoiKwargs : Aoi(kw)

Spec == Init /\ [][Next]_vars

\* a session of geometry subsetting and warping
InitWarp == \E md \in ImageMetadata : InitWith(SourceImage(None), md)

NextWarp ==
    \/ \E b \in Boxes : GetItem(b)
    \/ \E kw \in WarpKwargs : Warp(kw)

SpecWarp == InitWarp /\ [][NextWarp]_vars

\* the crops of the source image
Crops == {b \in Boxes : BoundsWithin(b, FullBounds)}
CropOf(p, b) == Held(GeoGetItem(SourceImage(p), box(b[1], b[2], b[3], b[4])).val)

\* a session of array operations
NextDask ==
    \/ \E m \in Metas : Create(m)
    \/ \E m \in ArrayMethods : CallMethod(m)
    \/ \E ws \in WindowShapes : RandWindow(ws)
    \/ ReadDaskMeta

SpecDask == Init /\ [][NextDask]_vars

----------------------------------------------------------------------------
(* read: materializing a warped image on the worker pool *)

\* a variant of warp_geometry whose row count depends on the tasks completed before it
warp_geometry_shared(task, done) ==
    LET b == bounds(task.geometry)
    IN  [shape |-> <<NumBands, PyInt(b[4] - b[2], task.gsd) + done,
                     PyInt(b[3] - b[1], task.gsd)>>,
         bounds |-> b, dem |-> task.dem]

\* GeoImage.warp_geometry(geometry, dem, rpcs, proj, gsd) on im_full, for
\* one tile task: the sample grid it resamples onto (bands first) and the
\* bounds the samples cover.  done is the number of tasks already completed
\* when this one runs; the body reads nothing that another task writes.
warp_geometry(task, done) ==
    LET b == bounds(task.geometry)
    IN  [shape |-> <<NumBands, PyInt(b[4] - b[2], task.gsd), PyInt(b[3] - b[1], task.gsd)>>,
         bounds |-> b, dem |-> task.dem]

\* the keys of the chunks of an array with the daskmeta's shape and chunks
ChunkKeys(dm) ==
    {<<dm.name, 0, i, j>> : i \in 0 .. (CeilDiv(dm.shape[2], dm.chunks[2]) - 1),
                            j \in 0 .. (CeilDiv(dm.shape[3], dm.chunks[3]) - 1)}

\* img.read() on the image warp returned: compute(get=threaded_get) starts;
\* a requested key the graph does not hold makes it raise
ReadStart ==
    /\ sched.state # "running"
    /\ ret.op = "warp" /\ ret.status = "ok"
    /\ LET dm == ret.daskmeta[1]
       IN  sched' = IF ChunkKeys(dm) \subseteq DOMAIN dm.dask
                    THEN [state |-> "running", graph |-> dm.dask, want |-> ChunkKeys(dm),
                          running |-> {}, done |-> <<>>, out |-> <<>>]
                    ELSE [Idle EXCEPT !.state = "raised"]
    /\ UNCHANGED <<img, ret, chain, ipe>>

\* a free worker takes a task that has not started
TaskStart(k) ==
    /\ sched.state = "running"
    /\ k \in sched.want \ (sched.running \cup DOMAIN sched.done)
    /\ Cardinality(sched.running) < num_workers
    /\ sched' = [sched EXCEPT !.running = @ \cup {k}]
    /\ UNCHANGED <<img, ret, chain, ipe>>

\* a worker completes its task
TaskFinish(k) ==
    /\ sched.state = "running"
    /\ k \in sched.running
    /\ sched' = [sched EXCEPT
                   !.running = @ \ {k},
                   !.done = [j \in DOMAIN sched.done \cup {k} |->
                               IF j = k
                               THEN warp_geometry(sched.graph[k], Cardinality(DOMAIN sched.done))
                               ELSE sched.done[j]]]
    /\ UNCHANGED <<img, ret, chain, ipe>>

\* compute returns the assembled chunks to the caller of read
ReadReturn ==
    /\ sched.state = "running"
    /\ sched.want \subseteq DOMAIN sched.done
    /\ sched' = [sched EXCEPT !.state = "returned", !.out = sched.done]
    /\ UNCHANGED <<img, ret, chain, ipe>>

\* the products read is exercised on: tiles of the largest size
ReadMetadata ==
    {md \in ImageMetadata : md.tileXSize = MaxTile /\ md.tileYSize = MaxTile}

InitRead == \E b \in Crops, md \in ReadMetadata : InitWith(CropOf(None, b), md)

NextRead ==
    \/ \E kw \in WarpKwargs : Warp(kw)
    \/ ReadStart
    \/ \E k \in sched.want : TaskStart(k)
    \/ \E k \in sched.running : TaskFinish(k)
    \/ ReadReturn

SpecRead == InitRead /\ [][NextRead]_vars

----------------------------------------------------------------------------
(* Properties *)

\* the pixel-space image of the box b lies inside box(0, 0, cols, rows)
InsidePixelBox(self, b) ==
    LET pb == PixelBounds(self, box(b[1], b[2], b[3], b[4]))
    IN  /\ 0 <= pb[1] /\ pb[3] <= self.shape[3]
        /\ 0 <= pb[2] /\ pb[4] <= self.shape[2]

\* C1: img[g] succeeds, with the bounds of the returned image inside
\* img.bounds, for every g whose pixel-space image lies inside
\* box(0, 0, cols, rows); for every other g it fails with the containment
\* error and returns no image.
C1_GeometryIndexing ==
    [][\A b \in Boxes :
         GetItem(b) =>
           IF InsidePixelBox(img, b)
           THEN /\ ret'.status = "ok"
                /\ BoundsWithin(ImageBounds(ret'.val), ImageBounds(img))
           ELSE /\ ret'.status = "AssertionError"
                /\ ret'.val = NoVal
                /\ img' = img]_vars

\* C2: after any sequence of successful geometry subsets (by indexing or by
\* aoi with a geometry) the image's geometry is the GeoJSON form of the last
\* geometry indexed and its transform is the original transform translated by
\* the sum of the pixel offsets of the windows taken.
C2_SubsetComposition ==
    /\ img.dict.gi = chain.gi
    /\ img.dict.gt = chain.gt

\* what the caller of a method must receive when the method returned raw
RewrapPost(self, raw, got) ==
    IF raw.cls \in ImageClasses \cup {"Array"} /\ Len(raw.shape) \in {2, 3}
    THEN got.cls = self.cls /\ got.dict = self.dict /\ got.shape = raw.shape
    ELSE got = raw

AoiBy(self, kw, geom) ==
    ViaGetAttribute(self, "aoi",
        GeoGetItem(self,
            IF proj(self) = None THEN geom
            ELSE reproject(self, geom,
                           IF kw.from_proj = None THEN Some(DefaultProj) ELSE kw.from_proj,
                           None)))

\* C4: aoi subsets by bbox when bbox is given, else by wkt when wkt is
\* given, else by geojson when geojson is given; with none of the three it
\* returns self unchanged and takes no subset.
C4_AoiPrecedence ==
    [][\A kw \in AoiKwargs :
         (ret'.args = Some(kw) /\ Aoi(kw)) =>
           LET got == [status |-> ret'.status, val |-> ret'.val]
           IN  /\ kw.bbox # None =>
                    got = AoiBy(img, kw, box(kw.bbox[1][1], kw.bbox[1][2],
                                             kw.bbox[1][3], kw.bbox[1][4]))
               /\ (kw.bbox = None /\ kw.wkt # None) =>
                    got = AoiBy(img, kw, wkt_loads(kw.wkt[1]))
               /\ (kw.bbox = None /\ kw.wkt = None /\ kw.geojson # None) =>
                    got = AoiBy(img, kw, shape(kw.geojson[1]))
               /\ (kw.bbox = None /\ kw.wkt = None /\ kw.geojson = None) =>
                    got = Ok(img) /\ img' = img /\ chain' = chain]_vars

\* aoi was called with bbox and wkt together and cut the window of the bbox
C4_Witness ==
    /\ ret.op = "aoi" /\ ret.status = "ok"
    /\ ret.args # None
    /\ ret.args[1].bbox # None /\ ret.args[1].wkt # None
    /\ ret.val.shape = <<NumBands, 2, 2>>

\* the ground sample distance the tile tasks of a daskmeta carry
GsdOf(dm) == dm.dask[CHOOSE k \in DOMAIN dm.dask : TRUE].gsd

\* C5: the number of tile tasks warp registers is
\* ceil(W / tw) * ceil(H / th), W x H being the extent of the image's bounding
\* box in target pixels (geo extent / gsd) and tw x th the tile size.
C5_TileCountIsCeil ==
    (ret.op = "warp" /\ ret.status = "ok") =>
      LET dm == ret.daskmeta[1]
          b == ImageBounds(img)
      IN  Cardinality(DOMAIN dm.dask) =
            CeilDiv(b[3] - b[1], GsdOf(dm) * dm.chunks[3])
              * CeilDiv(b[4] - b[2], GsdOf(dm) * dm.chunks[2])

\* C6: after create(m) succeeds, reading __daskmeta__ from the returned
\* instance, and from every image derived from it by re-wrapped array
\* operations, yields m.
C6_DaskMetaRetrievable ==
    (ret.op = "daskmeta" /\ chain.meta # None) => ret.val = MetaValue(chain.meta[1])

\* C7: create(m) fails with a contract error, returning no image, when m is
\* no DaskMeta instance or declares a shape without 2 or 3 axes, and succeeds
\* for every other m.
C7_CreateFailsFast ==
    [][\A m \in Metas :
         Create(m) =>
           IF m.isDaskMeta /\ Len(m.shape) \in {2, 3}
           THEN /\ ret'.status = "ok"
                /\ ret'.val.cls = "DaskImage" /\ ret'.val.shape = m.shape
                /\ img' = ret'.val
           ELSE /\ ret'.status = "AssertionError"
                /\ ret'.val = NoVal
                /\ img' = img]_vars

\* a create that failed and left no image behind
C7_Witness ==
    /\ ret.op = "create" /\ ret.status = "AssertionError"
    /\ ret.val = NoVal

\* C8: for every window_shape = (rows, cols) that fits in the image and
\* every outcome of the random choice, randwindow returns a window of exactly
\* rows rows and cols columns lying inside the array.
C8_RandWindowFits ==
    [][\A ws \in WindowShapes :
         (RandWindow(ws) /\ ws[1] <= img.shape[2] /\ ws[2] <= img.shape[3]) =>
            /\ ret'.status = "ok"
            /\ ret'.val.shape = <<img.shape[1], ws[1], ws[2]>>
            /\ ret'.val.origin[1] + ws[1] <= img.shape[2]
            /\ ret'.val.origin[2] + ws[2] <= img.shape[3]]_vars

\* the array a tile task must produce, from its own arguments alone
ExpectedTile(task) ==
    LET b == bounds(task.geometry)
    IN  [shape |-> <<NumBands, (b[4] - b[2]) \div task.gsd, (b[3] - b[1]) \div task.gsd>>,
         bounds |-> b, dem |-> task.dem]

C10_KeysAreChunkGrid ==
    (ret.op = "warp" /\ ret.status = "ok") =>
      DOMAIN ret.daskmeta[1].dask = ChunkKeys(ret.daskmeta[1])

====
